---- MODULE Spec2Model ----
(***************************************************************************)
(* Model of the rpicam application (src/rpicam/src): the inference wrapper *)
(* hailo_inference.py, the configuration config.py, the capture loop of    *)
(* video_processor.py and the entry point main.py.                         *)
(*                                                                         *)
(* Real numbers (scores, box terms, mask coefficients) are fixed-point     *)
(* integers in hundredths: 0.9 is 90, the default threshold 0.5 is 50.     *)
(* Python indices (grid rows/columns, class ids, pixel coordinates) are    *)
(* 0-based integers; tensors are sequences, so element i of tensor t is    *)
(* t[i + 1].                                                               *)
(*                                                                         *)
(* Three specifications share the variables: Spec is one call of predict,  *)
(* SpecConfig is the load of the configuration and one call of Config.get, *)
(* SpecMain is a run of main(): construction of HailoInference, the        *)
(* capture loop of run_realtime_test and the finalizer __del__.            *)
(***************************************************************************)
EXTENDS Integers, Sequences, FiniteSets, TLC

VARIABLES
    HAILO_AVAILABLE,       \* module flag set by the import probe
    confidence_threshold,  \* self.confidence_threshold
    input_size,            \* self.input_size, [H, W, C]
    infer_vstreams_ctx,    \* self.infer_vstreams_ctx: whether the streams context is entered
    frame,                 \* the frame given to predict, or None
    device,                \* what the accelerator answers to infer() for this frame
    pc,                    \* the position of the program
    results,               \* what predict returned (or an exception it let escape)
    config_file,           \* what open() and yaml.safe_load give for config/config.yaml
    config_data,           \* config.data
    query,                 \* the arguments key_path and default of a call of Config.get
    value,                 \* what Config.get returned
    model_exists,          \* Path(self.model_path).exists()
    resources,             \* which of the resource fields of HailoInference are set
    log,                   \* the accelerator calls that returned, and the exits called
    raised,                \* the exception HailoInference() raised, or None
    raw_output,            \* raw_output of predict, between inference and post-processing
    camera,                \* CAMERA_AVAILABLE and the state of picam2
    windows,               \* the state of the display window
    frame_idx,             \* frame_idx of run_realtime_test
    counts,                \* how often each step of the loop has run
    key,                   \* cv2.waitKey(1) & 0xFF of the last keypress check
    fault,                 \* the failure that happened on the current frame
    ending,                \* why run_realtime_test left the loop
    returned               \* what run_realtime_test returned

predictVars == <<HAILO_AVAILABLE, confidence_threshold, input_size, infer_vstreams_ctx,
                 frame, device, results>>

configVars == <<config_file, config_data, query, value>>

loadVars == <<model_exists, resources, log, raised>>

loopVars == <<raw_output, camera, windows, frame_idx, counts, key, fault, ending, returned>>

vars == <<predictVars, pc, configVars, loadVars, loopVars>>

----------------------------------------------------------------------------
(* Python values *)

None == [None |-> TRUE]

Raise(e) == [exception |-> e]

IsRaise(v) == "exception" \in DOMAIN v

\* the value of a step that may raise and yields a sequence
Ok(v) == [value |-> v]

Min(a, b) == IF a < b THEN a ELSE b

\* C-style conversion of the real a / 100 to an integer: the fraction is dropped
TruncHundredths(a) == IF a >= 0 THEN a \div 100 ELSE -((-a) \div 100)

----------------------------------------------------------------------------
(* Bounds of the model *)

GridH == 3          \* rows of the score/box/aux grids

GridW == 7          \* columns of the score/box/aux grids

MaskChannels == 2   \* channels of the mask grid

MaskRes == 10       \* the mask grid is MaskRes x MaskRes

\* the score grid has one class more than the mask grid has channels, so the
\* highest class id is out of bounds for the masks (80 against 64 in the model file)
NumClasses == MaskChannels + 1

OutClass == NumClasses - 1

----------------------------------------------------------------------------
(* Output layer names of the compiled model *)

BoxLayer == "yolov8n_seg/conv73"

ScoreLayer == "yolov8n_seg/conv74"

AuxLayer == "yolov8n_seg/conv75"

MaskLayer == "yolov8n_seg/conv60"

Layers == {BoxLayer, ScoreLayer, AuxLayer, MaskLayer}

----------------------------------------------------------------------------
(* Tensors the accelerator can answer with.  A score row is one of a few    *)
(* row kinds; a grid is any stack of GridH rows.                            *)

OneHot(c, s, rest) == [k \in 1..NumClasses |-> IF k - 1 = c THEN s ELSE rest]

RowKinds == {"cold", "ramp", "flat", "out", "spot", "edge", "outlast"}

ScoreCell(kind, x) ==
    CASE kind = "cold"    -> OneHot(1, 20, 10)
      [] kind = "ramp"    -> OneHot(x % NumClasses, 95 - x, 5)
      [] kind = "flat"    -> OneHot(1, 60, 10)
      [] kind = "out"     -> OneHot(OutClass, 90, 30)
      [] kind = "spot"    -> IF x = 1 THEN OneHot(1, 90, 10) ELSE OneHot(1, 20, 10)
      [] kind = "edge"    -> IF x % 2 = 0 THEN [k \in 1..NumClasses |-> 50]
                             ELSE [k \in 1..NumClasses |-> IF k <= 2 THEN 80 ELSE 10]
      [] kind = "outlast" -> IF x < GridW - 1 THEN OneHot(OutClass, 90, 30)
                             ELSE OneHot(0, 55, 10)

ScoreGrid(rows) == [y \in 1..GridH |-> [x \in 1..GridW |-> ScoreCell(rows[y], x - 1)]]

\* box grid: the cell in column 1 carries the encoded box (0.1, 0.2, 0.3, 0.4),
\* the other cells carry terms below 0 and above 1 as raw regression outputs do
BoxCell(y, x) ==
    IF x = 1 THEN <<10, 20, 30, 40, 1, 2, 3, 4>>
    ELSE <<50 * x - 33, 129 - 40 * y, 7 * x * y - 250, 467 - x, 5, 6, 7, 8>>

BoxGrid == [y \in 1..GridH |-> [x \in 1..GridW |-> BoxCell(y - 1, x - 1)]]

\* the same grid with six channels per cell, which cannot be reshaped to rows of 4
OddBoxGrid == [y \in 1..GridH |-> [x \in 1..GridW |-> SubSeq(BoxCell(y - 1, x - 1), 1, 6)]]

AuxGrid == [y \in 1..GridH |-> [x \in 1..GridW |-> <<0, 0>>]]

MaskKinds == {"full", "empty", "first", "one", "two"}

\* value of mask channel c at flat (row-major) pixel index i
MaskValue(kind, c, i) ==
    LET low == IF i % 2 = 0 THEN 50 ELSE 10
    IN CASE kind = "full"  -> 90
         [] kind = "empty" -> low
         [] kind = "first" -> IF c = 0 THEN 90 ELSE low
         [] kind = "one"   -> IF i = c THEN 90 ELSE low
         [] kind = "two"   -> IF i = c \/ i = c + 1 THEN 90 ELSE low

MaskGrid(kind) ==
    [y \in 1..MaskRes |-> [x \in 1..MaskRes |->
        [c \in 1..MaskChannels |-> MaskValue(kind, c - 1, (y - 1) * MaskRes + (x - 1))]]]

Bundle(boxes, rows, kind) ==
    [k \in Layers |->
        CASE k = BoxLayer   -> <<boxes>>
          [] k = ScoreLayer -> <<ScoreGrid(rows)>>
          [] k = AuxLayer   -> <<AuxGrid>>
          [] k = MaskLayer  -> <<MaskGrid(kind)>>]

\* a bundle that lacks one output layer
WithoutLayer(b, k) == [j \in Layers \ {k} |-> b[j]]

\* a bundle whose tensor for layer k has an empty batch axis
EmptyBatch(b, k) == [j \in Layers |-> IF j = k THEN <<>> ELSE b[j]]

----------------------------------------------------------------------------
(* numpy / OpenCV primitives used by postprocess_output *)

\* np.max over the channel axis of one cell
MaxOf(v) == CHOOSE m \in {v[k] : k \in DOMAIN v} : \A k \in DOMAIN v : v[k] <= m

\* np.argmax over the channel axis of one cell: the first index of the maximum
ArgMaxOf(v) == (CHOOSE k \in DOMAIN v : v[k] = MaxOf(v) /\ \A j \in 1..(k - 1) : v[j] < v[k]) - 1

\* np.where(valid_cells): the 0-based <<y, x>> of the TRUE cells in row-major order
RECURSIVE WhereFrom(_, _)
WhereFrom(valid, i) ==
    LET w == Len(valid[1])
        y == i \div w
        x == i % w
    IN IF i >= Len(valid) * w THEN <<>>
       ELSE (IF valid[y + 1][x + 1] THEN <<(<<y, x>>)>> ELSE <<>>) \o WhereFrom(valid, i + 1)

Where(valid) == WhereFrom(valid, 0)

\* np.argsort's default sort (introsort) is not stable: the relative order of equal
\* keys is whatever the partitioning leaves.  A tie-break names the order in which
\* equal keys come out: in input order, in reverse input order, or rotated.
TieBreaks == {"scan", "reverse", "rotate"}

TieKey(tie, i, n) ==
    CASE tie = "scan"    -> i
      [] tie = "reverse" -> n - 1 - i
      [] tie = "rotate"  -> (i + n \div 2) % n

\* whether index j comes out before index i
Before(keys, tie, j, i) ==
    \/ keys[j + 1] < keys[i + 1]
    \/ keys[j + 1] = keys[i + 1] /\ TieKey(tie, j, Len(keys)) < TieKey(tie, i, Len(keys))

\* the sorted index list with index i put at its place
RECURSIVE Insert(_, _, _, _)
Insert(keys, tie, sorted, i) ==
    IF sorted = <<>> THEN <<i>>
    ELSE IF Before(keys, tie, i, Head(sorted)) THEN <<i>> \o sorted
    ELSE <<Head(sorted)>> \o Insert(keys, tie, Tail(sorted), i)

RECURSIVE SortFrom(_, _, _)
SortFrom(keys, tie, i) ==
    IF i >= Len(keys) THEN <<>>
    ELSE Insert(keys, tie, SortFrom(keys, tie, i + 1), i)

\* np.argsort(keys): the 0-based indices of keys in ascending key order
ArgSort(keys, tie) == SortFrom(keys, tie, 0)

\* faulty variant: the sign is not changed, so the sort is ascending
NotNegated(seq) == seq

\* the confidences with their sign changed
RECURSIVE Negated(_)
Negated(seq) == IF seq = <<>> THEN <<>> ELSE <<-Head(seq)>> \o Negated(Tail(seq))

\* arr[idx]: the elements of arr at the 0-based indices idx, in the order of idx
RECURSIVE Gather(_, _)
Gather(arr, idx) ==
    IF idx = <<>> THEN <<>> ELSE <<arr[Head(idx) + 1]>> \o Gather(arr, Tail(idx))

\* seq[:k]
Take(seq, k) == SubSeq(seq, 1, Min(k, Len(seq)))

\* faulty variant: a coverage of exactly 1% counts as significant
SignificantAtLeast(masks, c) ==
    LET h == Len(masks)
        w == Len(masks[1])
        positive == {p \in (1..h) \X (1..w) : masks[p[1]][p[2]][c + 1] > 50}
    IN 100 * Cardinality(positive) >= h * w

\* np.mean(mask > 0.5) > 0.01 for channel c of the mask grid: more than 1 pixel in 100
\* lies above 0.5
Significant(masks, c) ==
    LET h == Len(masks)
        w == Len(masks[1])
        positive == {p \in (1..h) \X (1..w) : masks[p[1]][p[2]][c + 1] > 50}
    IN 100 * Cardinality(positive) > h * w

\* cv2.resize(mask, (w, h), interpolation=cv2.INTER_NEAREST) of channel c followed by
\* (resized_mask > 0.5).astype(np.uint8); cv2 raises on an empty destination
ResizeBinary(masks, c, h, w) ==
    LET sh == Len(masks)
        sw == Len(masks[1])
    IN [y \in 1..h |-> [x \in 1..w |->
          LET sy == Min(((y - 1) * sh) \div h, sh - 1)
              sx == Min(((x - 1) * sw) \div w, sw - 1)
          IN IF masks[sy + 1][sx + 1][c + 1] > 50 THEN 1 ELSE 0]]

----------------------------------------------------------------------------
(* HailoInference.postprocess_output *)

max_detections == 20

\* per-cell confidence: the maximum over the class channels
max_scores(scores) ==
    [y \in 1..Len(scores) |-> [x \in 1..Len(scores[y]) |-> MaxOf(scores[y][x])]]

\* per-cell class id: the argmax over the class channels
class_ids(scores) ==
    [y \in 1..Len(scores) |-> [x \in 1..Len(scores[y]) |-> ArgMaxOf(scores[y][x])]]

\* faulty variant: a confidence equal to the threshold passes
AtLeastThreshold(score) == score >= confidence_threshold

\* faulty variant: the comparison is turned around
BelowThreshold(score) == score < confidence_threshold

\* whether a confidence passes the threshold
AboveThreshold(score) == score > confidence_threshold

valid_cells(scores) ==
    [y \in 1..Len(scores) |-> [x \in 1..Len(scores[y]) |->
        AboveThreshold(max_scores(scores)[y][x])]]

\* max_scores[valid_y, valid_x]
RECURSIVE ScoresAt(_, _)
ScoresAt(ms, cells) ==
    IF cells = <<>> THEN <<>>
    ELSE <<ms[Head(cells)[1] + 1][Head(cells)[2] + 1]>> \o ScoresAt(ms, Tail(cells))

\* the cells above the threshold, ordered by descending confidence
SortedCells(scores, tie) ==
    LET cells == Where(valid_cells(scores))
        cell_scores == ScoresAt(max_scores(scores), cells)
        sort_idx == ArgSort(Negated(cell_scores), tie)
    IN Gather(cells, sort_idx)

\* faulty variant: the sorted cells are not cut to max_detections
TopCellsUncapped(scores, tie) == SortedCells(scores, tie)

\* valid_y[:max_detections], valid_x[:max_detections]
TopCells(scores, tie) == Take(SortedCells(scores, tie), max_detections)

\* boxes[y, x].reshape(-1, 4)[0]
CellBox(boxes, y, x) ==
    IF y + 1 \notin DOMAIN boxes \/ x + 1 \notin DOMAIN boxes[y + 1] THEN Raise("IndexError")
    ELSE IF Len(boxes[y + 1][x + 1]) % 4 /= 0 THEN Raise("ValueError")
    ELSE IF Len(boxes[y + 1][x + 1]) = 0 THEN Raise("IndexError")
    ELSE Ok(SubSeq(boxes[y + 1][x + 1], 1, 4))

\* faulty variant: the bound is off by one
ClassInBoundsOffByOne(class_id, masks) == ~(class_id > Len(masks[1][1]))

\* whether a class id can index the mask channels
ClassInBounds(class_id, masks) == ~(class_id >= Len(masks[1][1]))

\* one iteration of the loop over the kept cells: an exception, Ok(<<>>) when the
\* cell is skipped, or the one-element list of what is appended to the valid_* lists
ProcessCell(boxes, scores, masks, cell) ==
    LET y == cell[1]
        x == cell[2]
        box == CellBox(boxes, y, x)
        score == max_scores(scores)[y + 1][x + 1]
        class_id == class_ids(scores)[y + 1][x + 1]
    IN IF IsRaise(box) THEN box
       ELSE IF ~ClassInBounds(class_id, masks) THEN Ok(<<>>)
       ELSE IF class_id + 1 \notin DOMAIN masks[1][1] THEN Raise("IndexError")
       ELSE IF Significant(masks, class_id)
            THEN Ok(<<[box |-> box.value, score |-> score, class_id |-> class_id]>>)
            ELSE Ok(<<>>)

RECURSIVE ProcessCells(_, _, _, _, _)
ProcessCells(boxes, scores, masks, cells, i) ==
    IF i > Len(cells) THEN Ok(<<>>)
    ELSE LET one == ProcessCell(boxes, scores, masks, cells[i])
         IN IF IsRaise(one) THEN one
            ELSE LET rest == ProcessCells(boxes, scores, masks, cells, i + 1)
                 IN IF IsRaise(rest) THEN rest ELSE Ok(one.value \o rest.value)

\* faulty variant: the filters run over every sorted cell and the cap comes last
KeptCellsFilterFirst(boxes, scores, masks, tie) ==
    LET all == ProcessCells(boxes, scores, masks, SortedCells(scores, tie), 1)
    IN IF IsRaise(all) THEN all ELSE Ok(Take(all.value, max_detections))

\* sorted_indices[:max_detections], then the loop over the cells that are left
KeptCells(boxes, scores, masks, tie) ==
    ProcessCells(boxes, scores, masks, TopCells(scores, tie), 1)

\* faulty variant: the encoded terms keep their slots, 0/2 scaled by height and 1/3 by width
PixelBoxUnswapped(box, h, w) ==
    << TruncHundredths(box[1] * h), TruncHundredths(box[2] * w),
       TruncHundredths(box[3] * h), TruncHundredths(box[4] * w) >>

\* one row of boxes_pixels: (y1, x1, y2, x2) from the encoded box and the frame size
PixelBox(box, h, w) ==
    << TruncHundredths(box[2] * h), TruncHundredths(box[1] * w),
       TruncHundredths(box[4] * h), TruncHundredths(box[3] * w) >>

\* the body of the try block
PostprocessBody(raw, original_shape, tie) ==
    IF ~(Layers \subseteq DOMAIN raw) THEN Raise("KeyError")
    ELSE IF \E k \in Layers : Len(raw[k]) = 0 THEN Raise("IndexError")
    ELSE
      LET boxes == raw[BoxLayer][1]
          scores == raw[ScoreLayer][1]
          masks == raw[MaskLayer][1]
          h == original_shape[1]
          w == original_shape[2]
      IN IF \A y \in DOMAIN scores : \A x \in DOMAIN scores[y] : ~valid_cells(scores)[y][x]
         THEN None
         ELSE
           LET loop == KeptCells(boxes, scores, masks, tie)
               kept == loop.value
           IN IF IsRaise(loop) THEN loop
              ELSE IF Len(kept) = 0 THEN None
              ELSE IF h = 0 \/ w = 0 THEN Raise("cv2.error")
              ELSE [ boxes   |-> [i \in 1..Len(kept) |-> PixelBox(kept[i].box, h, w)],
                     scores  |-> [i \in 1..Len(kept) |-> kept[i].score],
                     classes |-> [i \in 1..Len(kept) |-> kept[i].class_id],
                     masks   |-> [i \in 1..Len(kept) |->
                                    ResizeBinary(masks, kept[i].class_id, h, w)] ]

\* faulty variant: the exception is not caught
Propagate(v) == v

\* except Exception: return None
CatchAll(v) == IF IsRaise(v) THEN None ELSE v

\* faulty variant: the mock output is post-processed like the accelerator's
postprocess_output_NoBypass(raw, original_shape, tie) ==
    IF raw = None THEN None
    ELSE CatchAll(PostprocessBody(raw, original_shape, tie))

postprocess_output(raw, original_shape, tie) ==
    IF raw = None THEN None
    ELSE IF ~HAILO_AVAILABLE THEN raw
    ELSE CatchAll(PostprocessBody(raw, original_shape, tie))

----------------------------------------------------------------------------
(* HailoInference.preprocess_frame, run_inference, _mock_inference, predict *)

\* cv2.resize to the model input size, colour conversion, batch axis; the pixel
\* content plays no part in what follows, so a frame is its shape
preprocess_frame(f) ==
    IF f = None THEN Raise("ValueError")
    ELSE IF f.shape[1] = 0 \/ f.shape[2] = 0 THEN Raise("cv2.error")
    ELSE [shape |-> <<1, input_size[1], input_size[2], f.shape[3]>>]

\* the two fixed detections of the mock output; rnd is the outcome of
\* np.random.randint(0, 2, (2, h, w))
_mock_inference(preprocessed_frame, rnd) ==
    [ detection_boxes   |-> << <<10, 10, 30, 30>>, <<50, 50, 70, 70>> >>,
      detection_scores  |-> <<90, 80>>,
      detection_classes |-> <<1, 2>>,
      detection_masks   |-> rnd ]

InferFailed == Raise("HailoRTException")

\* faulty variant: without the runtime there is no mock output
run_inference_NoMock(preprocessed_frame, answer, rnd) ==
    IF ~infer_vstreams_ctx THEN None
    ELSE CatchAll(answer)

\* answer is what the accelerator answers to infer(): a bundle, or a failure
run_inference(preprocessed_frame, answer, rnd) ==
    IF ~HAILO_AVAILABLE THEN _mock_inference(preprocessed_frame, rnd)
    ELSE IF ~infer_vstreams_ctx THEN None
    ELSE CatchAll(answer)

\* the raw output predict hands to postprocess_output, None when it never gets there
PredictRaw(f, answer, rnd) ==
    IF f = None \/ IsRaise(preprocess_frame(f)) THEN None
    ELSE run_inference(preprocess_frame(f), answer, rnd)

predict(f, answer, rnd, tie) ==
    IF f = None THEN None
    ELSE CatchAll(
        IF IsRaise(preprocess_frame(f)) THEN preprocess_frame(f)
        ELSE postprocess_output(PredictRaw(f, answer, rnd), f.shape, tie))

----------------------------------------------------------------------------
(* Inputs: the configuration, the frame, and what the accelerator answers    *)

Thresholds == {50, 80}

InputSizes == {<<2, 2, 3>>}

Frame(h, w) == [shape |-> <<h, w, 3>>]

SmallFrame == Frame(2, 3)

GoldenFrame == Frame(100, 200)

\* no frame, a frame of the model's input size, and a frame without rows
OtherFrames == {None, Frame(2, 2), Frame(0, 3)}

\* the possible outcomes of np.random.randint(0, 2, (2, h, w))
RandomMasks(h, w) == [1..2 -> [1..h -> [1..w -> {0, 1}]]]

NoRandom == <<>>

ColdRows == [y \in 1..GridH |-> "cold"]

SpotRows == [y \in 1..GridH |-> IF y = 1 THEN "spot" ELSE "cold"]

\* The answer of the accelerator to infer() is described by its form, the kinds of
\* its score rows and the kind of its mask grid
Forms == {"bundle", "failed", "oddbox", "nobatch", "nobox", "noscore", "noaux", "nomask"}

Answer(form, rows, kind) == [form |-> form, rows |-> rows, kind |-> kind]

\* the value infer() returns (or raises) for an answer
Tensor(d) ==
    LET good == Bundle(BoxGrid, d.rows, d.kind)
    IN CASE d.form = "bundle"  -> good
         [] d.form = "failed"  -> InferFailed
         [] d.form = "oddbox"  -> Bundle(OddBoxGrid, d.rows, d.kind)
         [] d.form = "nobatch" -> EmptyBatch(good, MaskLayer)
         [] d.form = "nobox"   -> WithoutLayer(good, BoxLayer)
         [] d.form = "noscore" -> WithoutLayer(good, ScoreLayer)
         [] d.form = "noaux"   -> WithoutLayer(good, AuxLayer)
         [] d.form = "nomask"  -> WithoutLayer(good, MaskLayer)

\* a grid is given by the kinds of its first row, its middle rows and its last row
Rows(t) == [y \in 1..GridH |-> IF y = 1 THEN t[1] ELSE IF y = GridH THEN t[3] ELSE t[2]]

\* every grid with the small frame; the golden grid with the 100 x 200 frame; the
\* malformed answers with the small and the other frames
Cases ==
    ({SmallFrame} \X {Answer("bundle", Rows(t), k) :
                        t \in RowKinds \X RowKinds \X RowKinds, k \in MaskKinds})
    \cup ({GoldenFrame} \X {Answer("bundle", SpotRows, k) : k \in {"two", "full", "one"}})
    \cup ((OtherFrames \cup {SmallFrame})
            \X {Answer(f, r, "two") : f \in Forms, r \in {SpotRows, ColdRows}})

----------------------------------------------------------------------------
(* Config: _load_config, _default_config, get                               *)

\* Python values of a loaded YAML document, tagged by their type
PyDict(f) == [dict |-> f]

PyList(seq) == [list |-> seq]

PyInt(n) == [int |-> n]

PyStr(str) == [str |-> str]

PyBool(b) == [bool |-> b]

\* isinstance(value, dict)
IsDict(v) == "dict" \in DOMAIN v

\* A string is the sequence of its pieces: a piece is the separator "." or a word
\* without a separator in it
Dot == "."

Word(w) == <<w>>

\* key_path.split('.'): the runs between the separators, empty runs included
RECURSIVE Split(_)
Split(str) ==
    IF \A i \in DOMAIN str : str[i] /= Dot THEN <<str>>
    ELSE LET i == CHOOSE j \in DOMAIN str :
                      str[j] = Dot /\ \A k \in 1..(j - 1) : str[k] /= Dot
         IN <<SubSeq(str, 1, i - 1)>> \o Split(SubSeq(str, i + 1, Len(str)))

_default_config ==
    PyDict(
        Word("model") :> PyDict(
            Word("path") :> PyStr("models/stdc1.hef")
            @@ Word("input_size") :> PyList(<<1024, 1920, 3>>)
            @@ Word("target_size") :> PyList(<<720, 1280>>))
        @@ Word("camera") :> PyDict(
            Word("resolution") :> PyList(<<720, 1280>>)
            @@ Word("framerate") :> PyInt(30)
            @@ Word("format") :> PyStr("RGB888"))
        @@ Word("processing") :> PyDict(
            Word("target_fps") :> PyInt(25)
            @@ Word("enable_boundary_extraction") :> PyBool(TRUE)
            @@ Word("visualization") :> PyBool(TRUE)))

\* open() on a missing file
NotFound == Raise("FileNotFoundError")

\* except FileNotFoundError: return self._default_config()
_load_config(opened) == IF opened = NotFound THEN _default_config ELSE opened

\* value[key]
Index(v, k) ==
    IF ~IsDict(v) THEN Raise("TypeError")
    ELSE IF k \notin DOMAIN v.dict THEN Raise("KeyError")
    ELSE v.dict[k]

\* faulty variant: the key is not looked for before it is read
PresentUnchecked(v, k) == IsDict(v)

\* isinstance(value, dict) and key in value
Present(v, k) == IsDict(v) /\ k \in DOMAIN v.dict

\* the for loop of get from the i-th key on
RECURSIVE GetFrom(_, _, _, _)
GetFrom(v, keys, i, default) ==
    IF i > Len(keys) THEN v
    ELSE IF Present(v, keys[i])
         THEN LET inner == Index(v, keys[i])
              IN IF IsRaise(inner) THEN inner ELSE GetFrom(inner, keys, i + 1, default)
         ELSE default

get(data, key_path, default) == GetFrom(data, Split(key_path), 1, default)

\* documents a configuration file can hold: the processing section with skip_frames
\* 0, an empty file, a scalar, a list, an empty mapping, sections that are scalars or
\* None, a mapping three levels deep, and empty keys
SkipNone ==
    PyDict(Word("processing") :> PyDict(Word("skip_frames") :> PyInt(0))
           @@ Word("model") :> PyDict(Word("path") :> PyStr("models/stdc1.hef")))

Documents ==
    { SkipNone,
      None,
      PyStr("model"),
      PyList(<<1, 2>>),
      PyDict(<<>>),
      PyDict(Word("model") :> PyStr("stdc1") @@ Word("path") :> None),
      PyDict(Word("model") :> PyDict(Word("path") :> PyDict(Word("path") :> PyInt(3)))),
      PyDict(<<>> :> PyDict(<<>> :> PyInt(7) @@ Word("path") :> PyBool(FALSE))) }

ConfigFiles == {NotFound} \cup Documents

MaxKeyLen == 5

Pieces == {"model", "path", Dot}

\* the key paths of at most MaxKeyLen pieces
KeyPaths == UNION {[1..n -> Pieces] : n \in 0..MaxKeyLen}

Defaults == {None, PyInt(1)}

----------------------------------------------------------------------------
(* HailoInference.__init__, _load_model and __del__                          *)

\* the calls of the try block of _load_model, in program order
LoadSteps ==
    << "HEF", "VDevice", "configure", "activate", "activation.__enter__",
       "InferVStreams", "infer_vstreams.__enter__" >>

\* the call of the try block that raises, if one does; configure fails also by
\* returning no network group
FailPoints == {"none"} \cup {LoadSteps[i] : i \in DOMAIN LoadSteps}

\* the number of calls that returned before the one that raised
StepsDone(fail) ==
    IF fail = "none" THEN Len(LoadSteps)
    ELSE (CHOOSE i \in DOMAIN LoadSteps : LoadSteps[i] = fail) - 1

LoadError(fail) ==
    Raise(IF fail = "configure" THEN "RuntimeError" ELSE "HailoRTException")

\* faulty variant: the runtime is looked for before the model file
LoadEntryRuntimeFirst(exists, available) ==
    IF ~available THEN "mock" ELSE IF ~exists THEN "raise" ELSE "load"

\* the two checks that precede the try block
LoadEntry(exists, available) ==
    IF ~exists THEN "raise" ELSE IF ~available THEN "mock" ELSE "load"

\* the resource fields after done calls of the try block returned: each field is
\* assigned when its call returns
FieldsAfter(done) ==
    [ hef                    |-> done >= 1,
      vdevice                |-> done >= 2,
      network_group          |-> done >= 3,
      activation_ctx_manager |-> done >= 4,
      activated_network      |-> done >= 5,
      infer_vstreams         |-> done >= 6,
      infer_vstreams_ctx     |-> done >= 7 ]

\* __init__ with _load_model: the fields, the calls that returned and the exception
_load_model(exists, fail) ==
    LET entry == LoadEntry(exists, HAILO_AVAILABLE)
        done == IF entry = "load" THEN StepsDone(fail) ELSE 0
    IN [ fields |-> FieldsAfter(done),
         log    |-> SubSeq(LoadSteps, 1, done),
         raised |-> IF entry = "raise" THEN Raise("FileNotFoundError")
                    ELSE IF entry = "load" /\ fail /= "none" THEN LoadError(fail)
                    ELSE None ]

\* __del__: the exits it calls, in the order it calls them; an exit that raises is
\* caught and the next one is still called
__del__(fields) ==
    (IF fields.infer_vstreams_ctx THEN <<"infer_vstreams.__exit__">> ELSE <<>>)
    \o (IF fields.activation_ctx_manager THEN <<"activation.__exit__">> ELSE <<>>)

----------------------------------------------------------------------------
(* VideoProcessor.run_realtime_test                                          *)

\* config.get('processing.skip_frames', 1)
skip_frames == get(config_data, <<"processing", Dot, "skip_frames">>, PyInt(1)).int

\* faulty variant: no frame is skipped
NeverSkip(idx, skip) == FALSE

\* frame_idx % (skip_frames + 1) != 0
ShouldSkip(idx, skip) == idx % (skip + 1) /= 0

\* cv2.waitKey(1) & 0xFF
KeyCode(raw) == raw % 256

\* faulty variant: every key pressed ends the loop
IsQuitAnyKey(k) == k /= KeyCode(-1)

\* key == ord('q')
IsQuit(k) == k = 113

\* what cv2.waitKey(1) gives: no key, q, Q, and q with a modifier flag above the
\* low byte
Keys == {-1, 113, 81, 1048689}

\* _create_segmentation_overlay reads results['boxes'] when results is not None
OverlayRaises(r) == r /= None /\ "boxes" \notin DOMAIN r

\* what picam2.capture_array() gives, or raises
Captures == {None, SmallFrame, Raise("RuntimeError")}

\* what the accelerator answers in the loop: detections, a failed infer(), and a
\* bundle whose post-processing raises
LoopAnswers ==
    { Answer("bundle", SpotRows, "two"), Answer("failed", ColdRows, "two"),
      Answer("nomask", SpotRows, "two") }

MaxFrames == 3

ZeroCounts ==
    [captures |-> 0, inferred |-> 0, postprocessed |-> 0, displayed |-> 0, keychecks |-> 0]

Bump(c, field) == [c EXCEPT ![field] = @ + 1]

LoopPcs == {"capture", "infer", "post", "display", "key"}

----------------------------------------------------------------------------
(* The state machine: one call of predict on a frame *)

\* the configuration module was imported without a configuration file
ConfigLoaded ==
    /\ config_file = NotFound
    /\ config_data = _default_config
    /\ query = [key_path |-> <<>>, default |-> None]
    /\ value = None

\* HailoInference() returned: the model file exists and every call of the try block
\* returned, or there is no runtime
Constructed ==
    /\ model_exists = TRUE
    /\ resources = _load_model(TRUE, "none").fields
    /\ log = _load_model(TRUE, "none").log
    /\ raised = None

\* run_realtime_test has not been called
LoopIdle ==
    /\ raw_output = None
    /\ camera \in {"idle"}
    /\ windows = "none"
    /\ frame_idx = 0
    /\ counts = ZeroCounts
    /\ key = KeyCode(-1)
    /\ fault = "none"
    /\ ending = "none"
    /\ returned = "none"

Init ==
    /\ HAILO_AVAILABLE \in BOOLEAN
    /\ infer_vstreams_ctx = HAILO_AVAILABLE
    /\ confidence_threshold \in Thresholds
    /\ input_size \in InputSizes
    /\ \E c \in Cases :
         /\ frame = c[1]
         /\ device = IF HAILO_AVAILABLE THEN c[2] ELSE Answer("failed", ColdRows, "two")
    /\ pc = "ready"
    /\ results = None
    /\ ConfigLoaded
    /\ Constructed
    /\ LoopIdle

\* predict(frame): the accelerator answers Tensor(device); the sort breaks ties as tie
\* does and the mock draws the random masks rnd
Predict ==
    /\ pc = "ready"
    /\ \E tie \in TieBreaks :
       \E rnd \in IF HAILO_AVAILABLE THEN {NoRandom}
                  ELSE RandomMasks(input_size[1], input_size[2]) :
          results' = predict(frame, Tensor(device), rnd, tie)
    /\ pc' = "done"
    /\ UNCHANGED <<HAILO_AVAILABLE, infer_vstreams_ctx, confidence_threshold, input_size,
                   frame, device>>
    /\ UNCHANGED <<configVars, loadVars, loopVars>>

Next == Predict

Spec == Init /\ [][Next]_vars

----------------------------------------------------------------------------
(* The state machine: the import of config.py and one call of Config.get   *)

\* the inference wrapper and the loop play no part
PredictIdle ==
    /\ HAILO_AVAILABLE = FALSE
    /\ infer_vstreams_ctx = FALSE
    /\ confidence_threshold = 50
    /\ input_size = <<2, 2, 3>>
    /\ frame = None
    /\ device = Answer("failed", ColdRows, "two")
    /\ results = None

InitConfig ==
    /\ pc = "import"
    /\ config_file \in ConfigFiles
    /\ config_data = None
    /\ query \in [key_path : KeyPaths, default : Defaults]
    /\ value = None
    /\ PredictIdle
    /\ Constructed
    /\ LoopIdle

\* config = Config(): __init__ with _load_config
LoadConfig ==
    /\ pc = "import"
    /\ config_data' = _load_config(config_file)
    /\ pc' = "loaded"
    /\ UNCHANGED <<config_file, query, value, predictVars, loadVars, loopVars>>

\* config.get(key_path, default)
Get ==
    /\ pc = "loaded"
    /\ value' = get(config_data, query.key_path, query.default)
    /\ pc' = "got"
    /\ UNCHANGED <<config_file, config_data, query, predictVars, loadVars, loopVars>>

NextConfig == LoadConfig \/ Get

SpecConfig == InitConfig /\ [][NextConfig]_vars

----------------------------------------------------------------------------
(* The state machine: a run of main()                                        *)

\* the modules are imported: the flags are set and the configuration is loaded
InitMain ==
    /\ pc = "main"
    /\ HAILO_AVAILABLE \in BOOLEAN
    /\ infer_vstreams_ctx = FALSE
    /\ confidence_threshold = 50
    /\ input_size = <<2, 2, 3>>
    /\ frame = None
    /\ device = Answer("failed", ColdRows, "two")
    /\ results = None
    /\ config_file \in {NotFound, SkipNone}
    /\ config_data = _load_config(config_file)
    /\ query = [key_path |-> <<>>, default |-> None]
    /\ value = None
    /\ model_exists \in BOOLEAN
    /\ resources = FieldsAfter(0)
    /\ log = <<>>
    /\ raised = None
    /\ raw_output = None
    /\ camera \in {"unavailable", "idle"}
    /\ windows = "none"
    /\ frame_idx = 0
    /\ counts = ZeroCounts
    /\ key = KeyCode(-1)
    /\ fault = "none"
    /\ ending = "none"
    /\ returned = "none"

\* inference = HailoInference(): fail is the call of the try block that raises
Construct ==
    /\ pc = "main"
    /\ \E fail \in FailPoints :
         LET made == _load_model(model_exists, fail)
         IN /\ resources' = made.fields
            /\ infer_vstreams_ctx' = made.fields.infer_vstreams_ctx
            /\ log' = made.log
            /\ raised' = made.raised
            /\ pc' = IF made.raised = None THEN "constructed" ELSE "raised"
    /\ UNCHANGED <<HAILO_AVAILABLE, confidence_threshold, input_size, frame, device,
                   results, model_exists, configVars, loopVars>>

\* the finally block: picam2.stop() and cv2.destroyAllWindows()
Cleanup ==
    /\ camera' = "stopped"
    /\ windows' = "destroyed"

\* except Exception: return False, after a failure of kind f
Fails(f) ==
    /\ fault' = f
    /\ ending' = "error"
    /\ returned' = "False"
    /\ Cleanup
    /\ pc' = "returned"

\* run_realtime_test up to the loop: the camera check, the camera and the window
StartLoop ==
    /\ pc = "constructed"
    /\ IF camera = "unavailable"
       THEN /\ returned' = "False"
            /\ ending' = "unavailable"
            /\ pc' = "returned"
            /\ UNCHANGED <<camera, windows, fault>>
       ELSE \E started \in BOOLEAN :
              IF started
              THEN /\ camera' = "started"
                   /\ windows' = "open"
                   /\ pc' = "capture"
                   /\ UNCHANGED <<fault, ending, returned>>
              ELSE Fails("camera")
    /\ UNCHANGED <<predictVars, configVars, loadVars, raw_output, frame_idx, counts, key>>

\* frame = picam2.capture_array(), the None check and the skip counter
Capture ==
    /\ pc = "capture"
    /\ counts.captures < MaxFrames
    /\ counts' = Bump(counts, "captures")
    /\ \E got \in Captures :
         IF IsRaise(got)
         THEN /\ Fails("capture")
              /\ UNCHANGED <<frame, frame_idx>>
         ELSE /\ frame' = got
              /\ frame_idx' = IF got = None THEN frame_idx ELSE frame_idx + 1
              /\ pc' = IF got = None \/ ShouldSkip(frame_idx', skip_frames)
                       THEN "capture" ELSE "infer"
              /\ fault' = "none"
              /\ UNCHANGED <<camera, windows, ending, returned>>
    /\ UNCHANGED <<HAILO_AVAILABLE, confidence_threshold, input_size, infer_vstreams_ctx,
                   device, results, configVars, loadVars, raw_output, key>>

\* results = None, then predict up to raw_output = self.run_inference(preprocessed)
Infer ==
    /\ pc = "infer"
    /\ results' = None
    /\ counts' = Bump(counts, "inferred")
    /\ \E answer \in IF HAILO_AVAILABLE THEN LoopAnswers ELSE {device} :
       \E rnd \in IF HAILO_AVAILABLE THEN {NoRandom}
                  ELSE RandomMasks(input_size[1], input_size[2]) :
          /\ device' = answer
          /\ raw_output' = PredictRaw(frame, Tensor(answer), rnd)
          /\ fault' = IF HAILO_AVAILABLE /\ IsRaise(Tensor(answer))
                      THEN "inference" ELSE fault
    /\ pc' = "post"
    /\ UNCHANGED <<HAILO_AVAILABLE, confidence_threshold, input_size, infer_vstreams_ctx,
                   frame, configVars, loadVars, camera, windows, frame_idx, key, ending,
                   returned>>

\* predict from results = self.postprocess_output(raw_output, frame.shape) on
Postprocess ==
    /\ pc = "post"
    /\ counts' = Bump(counts, "postprocessed")
    /\ \E tie \in TieBreaks :
         /\ results' = CatchAll(postprocess_output(raw_output, frame.shape, tie))
         /\ fault' = IF /\ HAILO_AVAILABLE
                        /\ raw_output /= None
                        /\ IsRaise(PostprocessBody(raw_output, frame.shape, tie))
                     THEN "postprocess" ELSE fault
    /\ raw_output' = None
    /\ pc' = "display"
    /\ UNCHANGED <<HAILO_AVAILABLE, confidence_threshold, input_size, infer_vstreams_ctx,
                   frame, device, configVars, loadVars, camera, windows, frame_idx, key,
                   ending, returned>>

\* _create_segmentation_overlay and cv2.imshow: shown tells whether imshow returned
Display ==
    /\ pc = "display"
    /\ \E shown \in BOOLEAN :
         IF OverlayRaises(results) \/ ~shown
         THEN /\ Fails("display")
              /\ UNCHANGED counts
         ELSE /\ counts' = Bump(counts, "displayed")
              /\ pc' = "key"
              /\ UNCHANGED <<camera, windows, fault, ending, returned>>
    /\ UNCHANGED <<predictVars, configVars, loadVars, raw_output, frame_idx, key>>

\* key = cv2.waitKey(1) & 0xFF; on q the break, the cleanup and return True
WaitKey ==
    /\ pc = "key"
    /\ counts' = Bump(counts, "keychecks")
    /\ \E pressed \in Keys :
         /\ key' = KeyCode(pressed)
         /\ IF IsQuit(key')
            THEN /\ ending' = "q"
                 /\ returned' = "True"
                 /\ Cleanup
                 /\ pc' = "returned"
            ELSE /\ pc' = "capture"
                 /\ UNCHANGED <<camera, windows, ending, returned>>
    /\ UNCHANGED <<predictVars, configVars, loadVars, raw_output, frame_idx, fault>>

\* Ctrl+C while the loop runs: except KeyboardInterrupt: return True, then finally
Interrupt ==
    /\ pc \in LoopPcs
    /\ ending' = "interrupt"
    /\ returned' = "True"
    /\ Cleanup
    /\ pc' = "returned"
    /\ UNCHANGED <<predictVars, configVars, loadVars, raw_output, frame_idx, counts, key,
                   fault>>

\* the HailoInference object is collected after main() returned or its construction
\* raised: __del__ runs
Finalize ==
    /\ pc \in {"raised", "returned"}
    /\ log' = log \o __del__(resources)
    /\ pc' = "finalized"
    /\ UNCHANGED <<predictVars, configVars, model_exists, resources, raised, loopVars>>

NextMain ==
    \/ Construct
    \/ StartLoop
    \/ Capture
    \/ Infer
    \/ Postprocess
    \/ Display
    \/ WaitKey
    \/ Interrupt
    \/ Finalize

SpecMain == InitMain /\ [][NextMain]_vars

----------------------------------------------------------------------------
(* What the properties speak about *)

Done == pc = "done"

\* the call ran the real post-processor
RealDone == Done /\ HAILO_AVAILABLE

\* the raw output that predict handed to postprocess_output
Raw == PredictRaw(frame, Tensor(device), NoRandom)

\* the raw output is a bundle whose score grid can be read
ScoresReadable ==
    /\ frame /= None
    /\ ~IsRaise(preprocess_frame(frame))
    /\ Raw /= None
    /\ ScoreLayer \in DOMAIN Raw
    /\ Len(Raw[ScoreLayer]) > 0

\* the raw output has all four layers, each with its batch entry, boxes of 4 terms
WellFormed ==
    /\ ScoresReadable
    /\ device.form = "bundle"

IsDetections(r) == "boxes" \in DOMAIN r

GridCells == (0..(GridH - 1)) \X (0..(GridW - 1))

CellScore(c) == MaxOf(Raw[ScoreLayer][1][c[1] + 1][c[2] + 1])

CellClass(c) == ArgMaxOf(Raw[ScoreLayer][1][c[1] + 1][c[2] + 1])

Hot == {c \in GridCells : CellScore(c) > confidence_threshold}

MaskChannelCount == Len(Raw[MaskLayer][1][1][1])

\* more than 1% of the pixels of mask channel k lie above 0.5
Covered(k) ==
    LET m == Raw[MaskLayer][1]
        px == {q \in (1..Len(m)) \X (1..Len(m[1])) : m[q[1]][q[2]][k + 1] > 50}
    IN 100 * Cardinality(px) > Len(m) * Len(m[1])

\* the cell passes the class-bound and the mask-coverage filter
Qualifies(c) == CellClass(c) < MaskChannelCount /\ Covered(CellClass(c))

\* the cell is among the 20 highest-confidence cells however ties are broken
SurelyTop(c) == Cardinality({d \in Hot : CellScore(d) >= CellScore(c)}) <= 20

Trunc(a) == IF a >= 0 THEN a \div 100 ELSE -((-a) \div 100)

\* the pixel box the remapping formula gives for the encoded box of cell c
FormulaBox(c) ==
    LET b == Raw[BoxLayer][1][c[1] + 1][c[2] + 1]
        h == frame.shape[1]
        w == frame.shape[2]
    IN << Trunc(b[2] * h), Trunc(b[1] * w), Trunc(b[4] * h), Trunc(b[3] * w) >>

----------------------------------------------------------------------------
(* Properties *)

\* C1: every detection the post-processor returns has a score strictly greater than
\* confidence_threshold; a cell whose maximum equals the threshold is not returned
C1_ScoreAboveThreshold ==
    RealDone /\ IsDetections(results) =>
        \A i \in DOMAIN results.scores : results.scores[i] > confidence_threshold

\* C1 witness: detections are returned for a grid that has cells exactly at the threshold
C1_Witness ==
    /\ RealDone /\ WellFormed /\ IsDetections(results)
    /\ \E c \in GridCells : CellScore(c) = confidence_threshold

\* C2: every returned class id is below the mask channel count, and a cell whose class
\* is out of bounds is skipped: the cells that pass still come out
C2_ClassInBounds ==
    RealDone /\ WellFormed =>
        /\ IsDetections(results) =>
              \A i \in DOMAIN results.classes : results.classes[i] < MaskChannelCount
        /\ (\E c \in Hot : Qualifies(c) /\ SurelyTop(c)) /\ frame.shape[1] > 0
              => IsDetections(results)

\* C2 witness: a grid with an out-of-bounds cell among the top cells, and detections
C2_Witness ==
    /\ RealDone /\ WellFormed /\ IsDetections(results)
    /\ \E c \in Hot : SurelyTop(c) /\ CellClass(c) >= MaskChannelCount

\* C3: the post-processor never returns more than 20 detections
C3_AtMostTwenty ==
    RealDone /\ IsDetections(results) => Len(results.scores) <= 20

\* C3 witness: more than 20 cells pass every filter and exactly 20 are returned
C3_Witness ==
    /\ RealDone /\ WellFormed /\ IsDetections(results)
    /\ Cardinality({c \in Hot : Qualifies(c)}) > 20
    /\ Len(results.scores) = 20

\* C4: when every cell's maximum class score is below the threshold the result is
\* None, whatever the box, aux and mask grids hold
C4_AllBelowGivesNone ==
    RealDone /\ ScoresReadable /\ (\A c \in GridCells : CellScore(c) < confidence_threshold)
        => results = None

\* C4 witness: every cell is below the threshold, some cell would pass the default
\* threshold, every mask channel is covered, and the result is None
C4_Witness ==
    /\ RealDone /\ WellFormed /\ device.kind = "full"
    /\ \A c \in GridCells : CellScore(c) < confidence_threshold
    /\ \E c \in GridCells : CellScore(c) > 50
    /\ results = None

\* the masks a result carries, under either of the two key names
ReturnedMasks(r) == IF IsDetections(r) THEN r.masks ELSE r.detection_masks

\* C5: every mask of a non-None result has the shape (height, width) of the frame and
\* pixel values 0 or 1
C5_MaskShapeAndValues ==
    Done /\ results /= None =>
        \A i \in DOMAIN ReturnedMasks(results) :
            LET m == ReturnedMasks(results)[i]
            IN /\ Len(m) = frame.shape[1]
               /\ \A y \in DOMAIN m :
                     /\ Len(m[y]) = frame.shape[2]
                     /\ \A x \in DOMAIN m[y] : m[y][x] \in {0, 1}

\* the number of cells that pass the threshold and both filters
QualifyingCount == Cardinality({c \in Hot : Qualifies(c)})

\* C6: every cell that passes the threshold, is among the 20 highest-confidence cells,
\* has an in-bounds class and a mask coverage above 1% is returned with its own score
\* and class, a cell that fails a filter is not returned, and when at most 20 cells
\* pass the threshold exactly the cells that pass both filters are returned;
\* one cell at 0.9 with class 1 gives exactly one detection with score 0.9 and class 1
C6_QualifyingCellsReturned ==
    RealDone /\ WellFormed /\ frame.shape[1] > 0 =>
        /\ \A c \in Hot : Qualifies(c) /\ SurelyTop(c) =>
              /\ IsDetections(results)
              /\ \E i \in DOMAIN results.scores :
                    results.scores[i] = CellScore(c) /\ results.classes[i] = CellClass(c)
        /\ QualifyingCount = 0 => results = None
        /\ Cardinality(Hot) <= 20 /\ QualifyingCount > 0 =>
              IsDetections(results) /\ Len(results.scores) = QualifyingCount
        /\ (\E c \in Hot : Hot = {c} /\ CellScore(c) = 90 /\ CellClass(c) = 1 /\ Covered(1)) =>
              IsDetections(results) /\ results.scores = <<90>> /\ results.classes = <<1>>

\* C6 witness: exactly one cell, at 0.9 with class 1, passes, its mask channel is
\* covered by 2% and the one detection comes out
C6_Witness ==
    /\ RealDone /\ WellFormed /\ device.kind = "two"
    /\ \E c \in Hot : Hot = {c} /\ CellScore(c) = 90 /\ CellClass(c) = 1
    /\ IsDetections(results) /\ results.scores = <<90>> /\ results.classes = <<1>>

\* C7: the pixel box of every returned detection is that of a cell above the threshold
\* with the detection's score and class, (y1, x1, y2, x2) =
\* (trunc(b1*h), trunc(b0*w), trunc(b3*h), trunc(b2*w)) of its first four box terms
C7_BoxRemapping ==
    RealDone /\ WellFormed /\ IsDetections(results) =>
        \A i \in DOMAIN results.boxes :
            \E c \in Hot :
                /\ results.scores[i] = CellScore(c)
                /\ results.classes[i] = CellClass(c)
                /\ results.boxes[i] = FormulaBox(c)

\* C7 witness: the encoded box (0.1, 0.2, 0.3, 0.4) in a 100 x 200 frame comes out as
\* (20, 20, 40, 60)
C7_Witness ==
    /\ RealDone /\ WellFormed /\ frame = GoldenFrame
    /\ \E c \in Hot : SubSeq(Raw[BoxLayer][1][c[1] + 1][c[2] + 1], 1, 4) = <<10, 20, 30, 40>>
    /\ IsDetections(results) /\ results.boxes = << <<20, 20, 40, 60>> >>

\* C8 as stated: equal-confidence cells keep their row-major scan order, so the result
\* is the one a stable sort gives
C8_TiesInScanOrder ==
    RealDone => results = predict(frame, Tensor(device), NoRandom, "scan")

\* C8 as amended: the detections come out in non-increasing confidence order and each
\* of them is among the 20 highest confidences; how equal confidences are ordered, and
\* which of them survive the cap, is not fixed
C8_SortedTopTwenty ==
    RealDone /\ WellFormed /\ IsDetections(results) =>
        /\ \A i, j \in DOMAIN results.scores :
              i < j => results.scores[i] >= results.scores[j]
        /\ \A i \in DOMAIN results.scores :
              Cardinality({c \in Hot : CellScore(c) > results.scores[i]}) < 20

\* C8 witness: more than 20 cells pass the threshold, detections of different
\* confidence come out, and equal confidences come out in another than scan order
C8_Witness ==
    /\ RealDone /\ WellFormed /\ IsDetections(results)
    /\ Cardinality(Hot) > 20
    /\ \E i, j \in DOMAIN results.scores : results.scores[i] > results.scores[j]
    /\ results /= predict(frame, Tensor(device), NoRandom, "scan")

\* C9: predict returns a result or None and never lets an exception escape; when the
\* body of postprocess_output raises, postprocess_output and predict return None
C9_ExceptionsBecomeNone ==
    Done =>
        /\ ~IsRaise(results)
        /\ HAILO_AVAILABLE /\ frame /= None /\ ~IsRaise(preprocess_frame(frame))
             /\ Raw /= None /\ IsRaise(PostprocessBody(Raw, frame.shape, "scan"))
             => /\ results = None
                /\ \A tie \in TieBreaks : postprocess_output(Raw, frame.shape, tie) = None

\* C9 witness: a bundle without its mask layer, or with box cells of six terms and a
\* cell above the threshold, raises in the body and predict returns None
C9_Witness ==
    /\ RealDone /\ frame = SmallFrame /\ device.form \in {"nomask", "oddbox"}
    /\ IsRaise(PostprocessBody(Raw, frame.shape, "scan"))
    /\ results = None

\* C10: without the accelerator runtime the result is the mock output itself: the two
\* fixed detections with scores 0.9 and 0.8, classes 1 and 2 and the two fixed boxes,
\* with masks of the model input size, not thresholded, filtered or rescaled
C10_MockUnchanged ==
    Done /\ ~HAILO_AVAILABLE /\ frame /= None /\ ~IsRaise(preprocess_frame(frame)) =>
        /\ DOMAIN results =
              {"detection_boxes", "detection_scores", "detection_classes", "detection_masks"}
        /\ results.detection_scores = <<90, 80>>
        /\ results.detection_classes = <<1, 2>>
        /\ results.detection_boxes = << <<10, 10, 30, 30>>, <<50, 50, 70, 70>> >>
        /\ results.detection_masks \in RandomMasks(input_size[1], input_size[2])
        /\ results = run_inference(preprocess_frame(frame), Tensor(device),
                                   results.detection_masks)

\* C10 witness: the mock output comes back although its second score does not exceed
\* the threshold and its masks do not have the frame's shape
C10_Witness ==
    /\ Done /\ ~HAILO_AVAILABLE /\ frame = SmallFrame /\ confidence_threshold = 80
    /\ results /= None
    /\ results.detection_scores[2] = 80
    /\ Len(results.detection_masks[1][1]) /= frame.shape[2]

\* construction of HailoInference is over, one way or the other
Built == pc /= "main"

\* C11: when the model file is missing, HailoInference() raises FileNotFoundError
\* before any accelerator call, with or without the runtime, and main() never
\* reaches the capture loop: no camera, no window, no capture
C11_MissingModelRaisesFirst ==
    ~model_exists /\ Built =>
        /\ raised = Raise("FileNotFoundError")
        /\ pc \in {"raised", "finalized"}
        /\ log = <<>>
        /\ resources = FieldsAfter(0)
        /\ counts = ZeroCounts
        /\ camera \in {"unavailable", "idle"}
        /\ windows = "none"

\* C11 witness: no model file and no runtime, and the construction has raised
C11_Witness ==
    /\ ~model_exists /\ ~HAILO_AVAILABLE
    /\ pc = "raised"
    /\ raised = Raise("FileNotFoundError")

\* r is the mock output: the two fixed detections and random masks of the input size
IsMockResult(r) ==
    /\ r /= None
    /\ "detection_masks" \in DOMAIN r
    /\ r.detection_masks \in RandomMasks(input_size[1], input_size[2])
    /\ r = _mock_inference(preprocess_frame(frame), r.detection_masks)

\* C12 as stated: without the runtime the construction never raises, and predict on
\* a frame returns the mock result
C12_MockNeverFails ==
    ~HAILO_AVAILABLE =>
        /\ raised = None
        /\ pc = "display" => IsMockResult(results)

\* C12: without the runtime and with the model file in place, the construction
\* completes without raising and without an accelerator call, and predict on a frame
\* returns the mock result
C12_MockWhenModelExists ==
    ~HAILO_AVAILABLE /\ model_exists =>
        /\ raised = None
        /\ pc /= "raised"
        /\ log = <<>>
        /\ pc = "display" => IsMockResult(results)

\* C12 witness: no runtime, the model file exists, and predict returned the mock
\* output for a captured frame
C12_Witness ==
    /\ ~HAILO_AVAILABLE /\ model_exists
    /\ pc = "display"
    /\ frame = SmallFrame
    /\ IsMockResult(results)

\* how often the call e is in the log
Count(e) == Cardinality({i \in DOMAIN log : log[i] = e})

\* C13: the device handle, the activation context and the streams context are each
\* acquired at most once; no context is exited that was not entered, also when
\* _load_model fails part-way; after the finalizer each entered context is exited
\* exactly once, the streams context before the activation context
C13_AcquireOnceReleaseOnceLifo ==
    /\ \A e \in {"VDevice", "activation.__enter__", "infer_vstreams.__enter__"} :
          Count(e) <= 1
    /\ Count("activation.__exit__") <= Count("activation.__enter__")
    /\ Count("infer_vstreams.__exit__") <= Count("infer_vstreams.__enter__")
    /\ pc = "finalized" =>
          /\ Count("activation.__exit__") = Count("activation.__enter__")
          /\ Count("infer_vstreams.__exit__") = Count("infer_vstreams.__enter__")
    /\ \A i, j \in DOMAIN log :
          log[i] = "infer_vstreams.__exit__" /\ log[j] = "activation.__exit__" => i < j

\* C14: a failure of capture, inference or post-processing on a frame does not end
\* the loop, and after a failed inference or post-processing the frame is handled as
\* one without detections
C14_FrameFailuresSurvived ==
    /\ fault \in {"capture", "inference", "postprocess"} =>
          ending /= "error" /\ returned /= "False"
    /\ fault \in {"inference", "postprocess"} /\ pc \in {"display", "key"} =>
          results = None

\* within an iteration the steps run in the order capture, inference,
\* post-processing, display, keypress check, each once, and a capture starts only
\* when the steps of the iteration before are complete
StepOrder ==
    LET n == counts.inferred
    IN /\ pc \in {"capture", "infer"} =>
             counts.postprocessed = n /\ counts.displayed = n /\ counts.keychecks = n
       /\ pc = "post" =>
             counts.postprocessed = n - 1 /\ counts.displayed = n - 1
             /\ counts.keychecks = n - 1
       /\ pc = "display" =>
             counts.postprocessed = n /\ counts.displayed = n - 1
             /\ counts.keychecks = n - 1
       /\ pc = "key" =>
             counts.postprocessed = n /\ counts.displayed = n /\ counts.keychecks = n - 1

\* C15 as stated: the steps are ordered and every captured frame has had its one
\* inference when the next capture starts
C15_OneInferencePerFrame ==
    /\ StepOrder
    /\ pc = "capture" => counts.inferred = frame_idx

\* C15: the steps are ordered; a captured frame has at most one inference, and the
\* frames that have one are those whose index is a multiple of skip_frames + 1
C15_OneInferencePerKeptFrame ==
    /\ StepOrder
    /\ counts.postprocessed <= counts.inferred
    /\ counts.inferred <= frame_idx
    /\ pc = "capture" => counts.inferred = frame_idx \div (skip_frames + 1)

\* C15 witness: with the default skip_frames of 1, two frames are captured and the
\* second alone went through inference, display and keypress check
C15_Witness ==
    /\ pc = "capture"
    /\ skip_frames = 1
    /\ frame_idx = 2
    /\ counts.inferred = 1
    /\ counts.keychecks = 1

\* C16 as stated: q is the only interactive input that ends the loop
C16_OnlyQEndsLoop ==
    /\ ending \in {"q", "interrupt"} => ending = "q" /\ key = 113
    /\ ending = "q" =>
          returned = "True" /\ camera = "stopped" /\ windows = "destroyed"
    /\ key = 113 => pc \notin LoopPcs
    /\ pc = "capture" /\ counts.keychecks > 0 => ending = "none"

\* C16: q is the only key that ends the loop, and it ends also on Ctrl+C; after q no
\* step of the loop runs, the camera is stopped, the windows are destroyed and the
\* function returns True, as it does after Ctrl+C; any other key leaves the loop
\* running
C16_QOrInterruptEndsLoop ==
    /\ ending = "q" <=> key = 113
    /\ ending \in {"q", "interrupt"} =>
          /\ returned = "True" /\ camera = "stopped" /\ windows = "destroyed"
          /\ pc \notin LoopPcs
    /\ returned = "True" => ending \in {"q", "interrupt"}
    /\ pc = "capture" /\ counts.keychecks > 0 => ending = "none" /\ key /= 113

\* C16 witness: a first keypress check read another key and the loop went on; the
\* second read q and the function returned True
C16_Witness ==
    /\ ending = "q"
    /\ counts.keychecks = 2
    /\ pc = "returned"
    /\ returned = "True"

\* the values reached from doc by the first n segments of keys through nested
\* mappings: one value when every segment is a key of a mapping, none otherwise
RECURSIVE Reach(_, _, _)
Reach(doc, keys, n) ==
    IF n = 0 THEN {doc}
    ELSE {v.dict[keys[n]] :
            v \in {u \in Reach(doc, keys, n - 1) : IsDict(u) /\ keys[n] \in DOMAIN u.dict}}

Segments == Split(query.key_path)

Stored == Reach(config_data, Segments, Len(Segments))

\* C17: Config.get never raises, whatever the dotted key path and the loaded
\* document: it returns the stored value when every segment is a key of the nested
\* mappings and the default otherwise; a missing file loads the default document
C17_GetNeverRaises ==
    /\ pc = "got" =>
          /\ ~IsRaise(value)
          /\ IF Stored = {} THEN value = query.default ELSE value \in Stored
    /\ pc /= "import" /\ config_file = NotFound => config_data = _default_config

\* C17 witness: without a configuration file, 'model.path.path' runs into the string
\* stored under model.path and get returns the default 1
C17_Witness ==
    /\ pc = "got"
    /\ config_file = NotFound
    /\ query = [key_path |-> <<"model", Dot, "path", Dot, "path">>, default |-> PyInt(1)]
    /\ Reach(config_data, Segments, 2) = {PyStr("models/stdc1.hef")}
    /\ value = PyInt(1)

\* at most 19 cells above the threshold have a strictly higher confidence than c: some
\* order of the ties puts c among the first 20 sorted cells
CanBeTop(c) == Cardinality({d \in Hot : CellScore(d) > CellScore(c)}) < 20

\* the cells that fail a filter and outrank every cell that passes both
RejectedAboveAll ==
    {c \in Hot : ~Qualifies(c) /\ \A d \in Hot : Qualifies(d) => CellScore(d) < CellScore(c)}

\* C18: the cap of 20 comes before the class-bound and mask-coverage filters: the
\* detections come only from cells that can be among the 20 highest-confidence cells,
\* and when 20 rejected cells outrank every cell that passes, the result is None
C18_CapBeforeFilters ==
    RealDone /\ WellFormed =>
        /\ IsDetections(results) =>
              Len(results.scores) <= Cardinality({c \in Hot : Qualifies(c) /\ CanBeTop(c)})
        /\ Cardinality(RejectedAboveAll) >= 20 => results = None

\* C18 witness: 20 cells with an out-of-bounds class outrank a cell that passes both
\* filters, and the result is None
C18_Witness ==
    /\ RealDone /\ WellFormed /\ frame = SmallFrame
    /\ Cardinality(RejectedAboveAll) >= 20
    /\ \E c \in Hot : Qualifies(c)
    /\ results = None

====
